---------------------------- MODULE Spec2Model ----------------------------
(***************************************************************************)
(* A model of the deterministic manifest ledger of feridunfc/OLLA2:        *)
(*   - LedgerSigner          (multiai/core/ledger_sign.py)                 *)
(*   - SignedLedgerWriter    (multiai/core/ledger_signed.py)               *)
(*   - DeterministicLedger   (multiai/core/deterministic_ledger.py)        *)
(*   - DeterministicValidator(multiai/core/deterministic_validator.py)     *)
(*   - SprintManifest        (multiai/schema/enhanced_manifest.py)         *)
(*   - TokenBucket           (multiai/core/token_bucket.py)                *)
(*                                                                         *)
(* SHA-256 is treated as collision-free: a hash is modelled as the bytes   *)
(* it was computed over, wrapped in a record.  An ECDSA signature is       *)
(* modelled as the pair (signing key, signed bytes).                       *)
(***************************************************************************)
EXTENDS Integers, Sequences, FiniteSets, TLC

VARIABLES
    \* ---- LedgerSigner (one instance per process) ----
    env_priv,         \* os.getenv('MULTIAI_PRIV_PEM'): the keypair whose private PEM it holds
    env_pub,          \* os.getenv('MULTIAI_PUB_PEM'): the keypair whose public PEM it holds
    private_key,      \* self.private_key : identity of the keypair it belongs to
    public_key,       \* self.public_key  : identity of the keypair it belongs to
    key_source,       \* "env" | "generated"
    issued,           \* the (data, signature) pairs sign_data has returned
    signer_out,       \* result of the last sign_data / verify_signature call
    \* ---- SignedLedgerWriter (data/ledger.db) ----
    ledger_entries,   \* table ledger_entries, a sequence of rows (id = position)
    clock,            \* time.time()
    writer_out,       \* result of the last write_manifest_to_ledger / verify_ledger_integrity
    \* ---- DeterministicLedger (sprint_ledger.db) ----
    sprint_ledger,    \* table sprint_ledger, a sequence of rows (id = position)
    artifact_ledger,  \* table artifact_ledger, a function (sprint_id, artifact_id) -> row
    audit_trail,      \* table audit_trail, a sequence of rows
    \* ---- DeterministicValidator and the callers ----
    files,            \* content of the file at workdir / artifact.path, per artifact
    pc,               \* per caller: the statement it is about to execute
    loc,              \* per caller: the local variables of the running call
    out,              \* what the call that finished last returned or raised
    va_args,          \* the arguments of the last validate_artifact call, as it found them
    \* ---- DeterministicValidator: the manifest hash ----
    hashed_manifest,  \* the manifest dict at hand
    prev_manifest,    \* the dict it was before the last operation on it
    hash_op,          \* the last operation on the dict
    \* ---- SprintManifest: the dependency graph ----
    artifacts,        \* self.artifacts, the declared artifact ids in order
    dependency_graph, \* self.dependency_graph: artifact id -> list of dependency ids
    graph_out,        \* result of the last validate_dependencies / get_execution_order
    \* ---- TokenBucket (one instance shared by the threads) ----
    rate,             \* self.rate, in token units per tick of the clock
    capacity,         \* self.capacity, in tokens
    tokens,           \* self.tokens, in token units
    last,             \* self.last
    lock,             \* self.lock: the thread that holds it, or NULL
    wall_time,        \* what time.time() returns now
    clock_history,    \* "still" | "forward" | "set_back": what the clock has done so far
    allow_pc,         \* per thread: "idle" | "locked" (inside the with block)
    allow_out,        \* the last allow() call to return
    grants,           \* number of allow() calls that returned True
    denials           \* number of allow() calls that returned False

signerVars == <<env_priv, env_pub, private_key, public_key, key_source, issued, signer_out>>
writerVars == <<ledger_entries, clock, writer_out>>
ledgerVars == <<sprint_ledger, artifact_ledger, audit_trail, files, pc, loc, out>>
hasherVars == <<hashed_manifest, prev_manifest, hash_op>>
manifestVars == <<artifacts, dependency_graph, graph_out>>
bucketVars == <<rate, capacity, tokens, last, lock, wall_time, clock_history,
                allow_pc, allow_out, grants, denials>>
otherVars == <<va_args, hashed_manifest, prev_manifest, hash_op,
               artifacts, dependency_graph, graph_out, bucketVars>>
vars == <<env_priv, env_pub, private_key, public_key, key_source, issued, signer_out,
          ledger_entries, clock, writer_out,
          sprint_ledger, artifact_ledger, audit_trail, files, pc, loc, out,
          va_args, hashed_manifest, prev_manifest, hash_op,
          artifacts, dependency_graph, graph_out, bucketVars>>

-----------------------------------------------------------------------------
(* Bounds of the model *)

MaxEntries == 2        \* rows of ledger_entries
MaxTime    == 1        \* values of the clock: 0..MaxTime
MaxAudit   == 2        \* rows of audit_trail

NULL == "NULL"         \* SQL NULL / Python None

-----------------------------------------------------------------------------
(* Python values and JSON documents *)

PyStr(s) == [ty |-> "str", v |-> s]

\* A dict is a sequence of <<key, value>> pairs in insertion order.
Keys(d) == {d[i][1] : i \in DOMAIN d}
HasKey(d, k) == k \in Keys(d)
Get(d, k, default) ==
    IF HasKey(d, k) THEN d[CHOOSE i \in DOMAIN d : d[i][1] = k][2] ELSE default

\* The keys the model uses, in lexicographic (code point) order, as
\* json.dumps(sort_keys=True) orders them.
KeyOrder == <<"config", "expected_sha256", "goal", "hash_algorithm", "mode",
              "sprint_id", "version">>

\* a dict as a value of another dict
PyDict(d) == [ty |-> "dict", v |-> d]

RECURSIVE SortedValue(_)

\* json.dumps(d, sort_keys=True): the keys in order, at every nesting level
SortKeys(d) ==
    LET present == SelectSeq(KeyOrder, LAMBDA k : HasKey(d, k))
    IN  [i \in DOMAIN present |-> <<present[i], SortedValue(Get(d, present[i], NULL))>>]

SortedValue(value) ==
    IF value.ty = "dict" THEN PyDict(SortKeys(value.v)) ELSE value

\* A faulty variant: "version" is not among the keys left out of the hash.
MetaKeysWithoutVersion == {"expected_sha256", "hash_algorithm"}

\* the keys compute_manifest_hash leaves out
MetaKeys == {"expected_sha256", "version", "hash_algorithm"}

\* hashlib.sha256(bytes).hexdigest(), collision-free.
Sha256(bytes) == [sha256 |-> bytes]

\* str.encode("utf-8")
Utf8(s) == [utf8 |-> s]

\* the hex digest of a hash, as text
HexDigest(hash) == "sha256(" \o hash.sha256.utf8 \o ")"

RECURSIVE JsonText(_)
RECURSIVE JsonItems(_, _)

\* the JSON text of a value: a string in quotes, a dict in braces
JsonValue(value) ==
    IF value.ty = "dict" THEN JsonText(value.v)
    ELSE IF value.ty = "hash" THEN "\"" \o HexDigest(value.v) \o "\""
    ELSE "\"" \o value.v \o "\""

\* "key":value of the items i.. of d, joined with ","
JsonItems(d, i) ==
    IF i > Len(d) THEN ""
    ELSE "\"" \o d[i][1] \o "\":" \o JsonValue(d[i][2])
         \o (IF i < Len(d) THEN "," ELSE "") \o JsonItems(d, i + 1)

\* json.dumps(d, separators=(",", ":")): the text of d, keys in the order of d
JsonText(d) == "{" \o JsonItems(d, 1) \o "}"

\* A faulty variant: the dict is serialized in its insertion order.
compute_manifest_hash_unsorted(manifest_data) ==
    LET clean_data == SelectSeq(manifest_data, LAMBDA kv : kv[1] \notin MetaKeys)
    IN  Sha256(Utf8(JsonText(clean_data)))

\* A faulty variant: only the names of the keys are hashed.
compute_manifest_hash_keys_only(manifest_data) ==
    LET clean_data == SelectSeq(manifest_data, LAMBDA kv : kv[1] \notin MetaKeys)
    IN  Sha256(Utf8(SelectSeq(KeyOrder, LAMBDA k : HasKey(clean_data, k))))

\* DeterministicValidator.compute_manifest_hash
compute_manifest_hash(manifest_data) ==
    LET clean_data == SelectSeq(manifest_data, LAMBDA kv : kv[1] \notin MetaKeys)
    IN  Sha256(Utf8(JsonText(SortKeys(clean_data))))

\* {**d, k: v}: an existing key keeps its position and takes the new value
DictSet(d, k, v) ==
    IF HasKey(d, k)
    THEN [i \in DOMAIN d |-> IF d[i][1] = k THEN <<k, v>> ELSE d[i]]
    ELSE Append(d, <<k, v>>)

\* DeterministicValidator.create_sprint_manifest_with_hash
create_sprint_manifest_with_hash(sprint_data) ==
    LET clean_data == SelectSeq(sprint_data, LAMBDA kv : kv[1] # "expected_sha256")
        manifest_hash == compute_manifest_hash(clean_data)
    IN  DictSet(DictSet(DictSet(clean_data,
            "expected_sha256", [ty |-> "hash", v |-> manifest_hash]),
            "version", PyStr("v1")),
            "hash_algorithm", PyStr("SHA-256"))

-----------------------------------------------------------------------------
(* LedgerSigner *)

\* The PEM values the environment can hold: none, or the private / public
\* half of keypair "A" or "B".  The generated development keypair is "dev".
PrivPems == {NULL, "A"}
PubPems  == {NULL, "A", "B"}

\* LedgerSigner._load_or_generate_keys: the two PEMs are loaded independently
\* of each other; with either one absent a fresh keypair is generated.
load_or_generate_keys(priv_key_pem, pub_key_pem) ==
    IF priv_key_pem # NULL /\ pub_key_pem # NULL
    THEN [private_key |-> priv_key_pem, public_key |-> pub_key_pem, source |-> "env"]
    ELSE [private_key |-> "dev", public_key |-> "dev", source |-> "generated"]

\* base64 text of an ECDSA signature made with the private half of `key`
\* over `bytes`; wf = FALSE is a string that is not such a text.
Signature(key, bytes) == [wf |-> TRUE, key |-> key, msg |-> bytes]
MalformedSig(bytes)   == [wf |-> FALSE, key |-> NULL, msg |-> bytes]

\* LedgerSigner.sign_data (the caller checks private_key for the raise)
sign_data(data) == Signature(private_key, Utf8(data))

\* A faulty variant of verify_signature: the payload is not compared.
verify_signature_any_payload(data, signature) ==
    signature.wf /\ signature.key = public_key

\* A faulty variant: a string that is no signature is accepted.
verify_signature_accepts_malformed(data, signature) ==
    \/ ~signature.wf
    \/ /\ signature.key = public_key
       /\ signature.msg = Utf8(data)

\* LedgerSigner.verify_signature: True iff public_key.verify accepts, False
\* on InvalidSignature and on every other exception
verify_signature(data, signature) ==
    /\ signature.wf
    /\ signature.key = public_key
    /\ signature.msg = Utf8(data)

\* LedgerSigner.get_public_key_fingerprint
get_public_key_fingerprint == [fp16 |-> Sha256([pem |-> public_key])]

SignerInit ==
    \E priv \in PrivPems, pub \in PubPems :
        LET k == load_or_generate_keys(priv, pub)
        IN  /\ env_priv = priv
            /\ env_pub = pub
            /\ private_key = k.private_key
            /\ public_key = k.public_key
            /\ key_source = k.source

\* The payloads handed to the signer on its own.
Payloads == {"original data", "tampered data", "test manifest data"}

NoSignerOut == [op |-> "none", data |-> "", sig |-> MalformedSig(Utf8("")), result |-> FALSE,
                raised |-> ""]

\* a call of sign_data(data): the signature, or the Exception
SignData(data) ==
    /\ IF private_key = NULL
       THEN /\ signer_out' = [op |-> "sign", data |-> data, sig |-> MalformedSig(Utf8("")),
                              result |-> FALSE,
                              raised |-> "No private key available for signing"]
            /\ UNCHANGED issued
       ELSE /\ issued' = issued \cup {[data |-> data, sig |-> sign_data(data)]}
            /\ signer_out' = [op |-> "sign", data |-> data, sig |-> sign_data(data),
                              result |-> TRUE, raised |-> ""]
    /\ UNCHANGED <<env_priv, env_pub, private_key, public_key, key_source>>

\* The signature strings a caller can hand to verify_signature: one the
\* signer issued, one made by another key, or a string that is no signature.
SigCandidates(data) ==
    {i.sig : i \in issued} \cup {Signature("other", Utf8(data)), MalformedSig(Utf8(data))}

\* a call of verify_signature(data, signature): the boolean, or the Exception
VerifySignature(data, signature) ==
    /\ signer_out' =
           IF public_key = NULL
           THEN [op |-> "verify", data |-> data, sig |-> signature, result |-> FALSE,
                 raised |-> "No public key available for verification"]
           ELSE [op |-> "verify", data |-> data, sig |-> signature,
                 result |-> verify_signature(data, signature), raised |-> ""]
    /\ UNCHANGED <<env_priv, env_pub, private_key, public_key, key_source, issued>>

WriterIdle ==
    /\ ledger_entries = <<>>
    /\ clock = 0
    /\ writer_out = [op |-> "none", ledger_id |-> 0, signal |-> "", existed |-> FALSE,
                     pair |-> <<>>, valid |-> FALSE]

LedgerIdle ==
    /\ sprint_ledger = <<>>
    /\ artifact_ledger = <<>>
    /\ audit_trail = <<>>
    /\ files = <<>>
    /\ pc = <<>>
    /\ loc = <<>>
    /\ out = <<>>

NoArgs == [content |-> NULL, file |-> NULL, expected_sha256 |-> NULL]

\* the bucket as test_bucket_basic constructs it, no call made
NoAllowOut == [thread |-> NULL, result |-> FALSE, available |-> 0, before |-> 0]

BucketIdle ==
    /\ rate = 1
    /\ capacity = 2
    /\ tokens = 2
    /\ last = 0
    /\ lock = NULL
    /\ wall_time = 0
    /\ clock_history = "still"
    /\ allow_pc = [p \in {"t1", "t2"} |-> "idle"]
    /\ allow_out = NoAllowOut
    /\ grants = 0
    /\ denials = 0

HasherIdle ==
    /\ hashed_manifest = <<>>
    /\ prev_manifest = <<>>
    /\ hash_op = "none"

ManifestIdle ==
    /\ artifacts = <<>>
    /\ dependency_graph = <<>>
    /\ graph_out = <<>>

OthersIdle ==
    /\ va_args = NoArgs
    /\ BucketIdle
    /\ HasherIdle
    /\ ManifestIdle

SignerSpecInit ==
    /\ SignerInit
    /\ issued = {}
    /\ signer_out = NoSignerOut
    /\ WriterIdle
    /\ LedgerIdle
    /\ OthersIdle

SignerNext ==
    \/ \E d \in Payloads : SignData(d) /\ UNCHANGED <<writerVars, ledgerVars, otherVars>>
    \/ \E d \in Payloads : \E sg \in SigCandidates(d) :
           VerifySignature(d, sg) /\ UNCHANGED <<writerVars, ledgerVars, otherVars>>

\* The signer on its own: sign_data and verify_signature on arbitrary payloads.
SpecSigner == SignerSpecInit /\ [][SignerNext]_vars

-----------------------------------------------------------------------------
(* SignedLedgerWriter *)

\* The request bodies of POST /ledger/write, as dicts.
SprintData ==
    { << <<"sprint_id", PyStr(sg[1])>>, <<"goal", PyStr(sg[2])>> >> :
        sg \in {<<"s1", "g1">>, <<"s1", "g2">>, <<"s2", "g1">>} }

\* The manifests handed to write_manifest_to_ledger: a request body as it
\* is, or as api/ledger.py passes it, through create_sprint_manifest_with_hash.
Manifests == SprintData \cup {create_sprint_manifest_with_hash(sd) : sd \in SprintData}

\* json.dumps(manifest): the text of the dict, keys in insertion order
JsonDumps(d) == [json |-> d]

\* json.dumps(entry_data, sort_keys=True) of the five signed fields
SignedPayload(timestamp, sprint_id, manifest_hash, manifest_data) ==
    [manifest_data |-> manifest_data, manifest_hash |-> manifest_hash,
     sprint_id |-> sprint_id, timestamp |-> timestamp, version |-> "v1"]

\* the row INSERTed by write_manifest_to_ledger; version takes the column default
NewEntry(manifest, now) ==
    LET manifest_hash == compute_manifest_hash(manifest)
        sprint_id     == Get(manifest, "sprint_id", PyStr("unknown"))
        manifest_data == JsonDumps(manifest)
        data_to_sign  == SignedPayload(now, sprint_id, manifest_hash, manifest_data)
    IN  [id |-> Len(ledger_entries) + 1,
         timestamp |-> now,
         sprint_id |-> sprint_id,
         manifest_hash |-> manifest_hash,
         manifest_data |-> manifest_data,
         signature |-> sign_data(data_to_sign),
         public_key_fingerprint |-> get_public_key_fingerprint,
         version |-> "v1"]

PairOf(row) == <<row.sprint_id, row.manifest_hash>>

\* INSERT INTO ledger_entries: the table has no UNIQUE constraint
InsertEntry(entries, row) == Append(entries, row)

\* SignedLedgerWriter.write_manifest_to_ledger; `existed` notes for the
\* properties whether the (sprint_id, manifest_hash) pair was stored before.
WriteManifestToLedger(manifest) ==
    /\ Len(ledger_entries) < MaxEntries
    /\ LET row == NewEntry(manifest, clock)
           existed == \E i \in DOMAIN ledger_entries :
                         PairOf(ledger_entries[i]) = PairOf(row)
       IN  IF private_key = NULL
           THEN \* sign_data raises before the INSERT is reached
                /\ writer_out' = [op |-> "write", ledger_id |-> 0,
                                  signal |-> "No private key available for signing",
                                  existed |-> existed, pair |-> PairOf(row), valid |-> FALSE]
                /\ UNCHANGED ledger_entries
           ELSE /\ ledger_entries' = InsertEntry(ledger_entries, row)
                /\ writer_out' = [op |-> "write", ledger_id |-> row.id, signal |-> "",
                                  existed |-> existed, pair |-> PairOf(row), valid |-> FALSE]
    /\ UNCHANGED <<clock, signerVars>>

\* SignedLedgerWriter.verify_ledger_integrity
verify_ledger_integrity(ledger_id) ==
    IF ledger_id \notin {ledger_entries[i].id : i \in DOMAIN ledger_entries}
    THEN [valid |-> FALSE, error |-> "Entry not found"]
    ELSE LET row == ledger_entries[CHOOSE i \in DOMAIN ledger_entries :
                                      ledger_entries[i].id = ledger_id]
             data_to_verify == SignedPayload(row.timestamp, row.sprint_id,
                                             row.manifest_hash, row.manifest_data)
         IN  [valid |-> verify_signature(data_to_verify, row.signature), error |-> ""]

\* a call of verify_ledger_integrity(ledger_id)
VerifyLedgerIntegrity(ledger_id) ==
    /\ public_key # NULL
    /\ LET r == verify_ledger_integrity(ledger_id)
       IN  writer_out' = [op |-> "verify", ledger_id |-> ledger_id, signal |-> r.error,
                          existed |-> r.error = "", pair |-> <<>>, valid |-> r.valid]
    /\ UNCHANGED <<ledger_entries, clock, signerVars>>

\* time passes between calls
Tick ==
    /\ clock < MaxTime
    /\ clock' = clock + 1
    /\ UNCHANGED <<ledger_entries, writer_out, signerVars>>

WriterSpecInit ==
    /\ SignerInit
    /\ issued = {}
    /\ signer_out = NoSignerOut
    /\ WriterIdle
    /\ LedgerIdle
    /\ OthersIdle

WriterNext ==
    \/ \E m \in Manifests : WriteManifestToLedger(m) /\ UNCHANGED <<ledgerVars, otherVars>>
    \/ \E id \in 1..(MaxEntries + 1) : VerifyLedgerIntegrity(id) /\ UNCHANGED <<ledgerVars, otherVars>>
    \/ Tick /\ UNCHANGED <<ledgerVars, otherVars>>

\* The signed ledger writer with its signer.
SpecSigned == WriterSpecInit /\ [][WriterNext]_vars

-----------------------------------------------------------------------------
(* DeterministicLedger: the tables and their statements.  Connections are  *)
(* opened with isolation_level=None, so every statement commits on its own *)
(* and statements of concurrent callers interleave.                        *)

Procs == {"t1", "t2"}                   \* the concurrent callers

Sprints == {"s1", "s2"}

\* hashlib.sha256(...).hexdigest() as text
Sha256Hex(text) == "sha256(" \o text \o ")"

\* The SprintManifest objects of the callers (the fields that vary).
SprintManifests ==
    {[sprint_id |-> "s1", sprint_purpose |-> "p1"],
     [sprint_id |-> "s1", sprint_purpose |-> "p2"],
     [sprint_id |-> "s2", sprint_purpose |-> "p1"]}

\* SprintManifest.calculate_manifest_hash: sha256 of the JSON text of the
\* manifest, keys sorted, separators (",", ":")
calculate_manifest_hash(m) ==
    Sha256Hex("{\"sprint_id\":\"" \o m.sprint_id \o "\",\"sprint_purpose\":\""
              \o m.sprint_purpose \o "\"}")

\* The Artifact objects handed to validate_artifact.
ArtifactIds == {"a1", "a2"}
Artifacts ==
    {[artifact_id |-> "a1", expected_sha256 |-> Sha256Hex("x=1")],
     [artifact_id |-> "a2", expected_sha256 |-> NULL]}

\* The rows a database file can hold in artifact_ledger when it is opened
\* (CREATE TABLE IF NOT EXISTS keeps them): as inserted, not yet validated.
PendingRow(sprint_id, artifact_id) ==
    [sprint_id |-> sprint_id, artifact_id |-> artifact_id,
     expected_hash |-> Sha256Hex("x=1"), actual_hash |-> NULL,
     status |-> "pending", validation_result |-> NULL,
     file_path |-> "src/" \o artifact_id \o ".py"]

\* The artifacts of the sprints: (sprint_id, artifact_id).
ArtifactKeys == {<<"s1", "a1">>, <<"s1", "a2">>, <<"s2", "a1">>}

NoLoc == [op |-> "none"]
NoOut == [op |-> "none", kind |-> "none"]

LedgerInit ==
    /\ sprint_ledger = <<>>
    /\ \E ks \in {{}, ArtifactKeys} :
          artifact_ledger = {PendingRow(k[1], k[2]) : k \in ks}
    /\ audit_trail = <<>>
    /\ files = [a \in ArtifactIds |-> IF a = "a1" THEN "x=1" ELSE "missing"]
    /\ pc = [p \in Procs |-> "idle"]
    /\ loc = [p \in Procs |-> NoLoc]
    /\ out = NoOut

\* the calls in flight that still append one audit row
AuditsInFlight == Cardinality({p \in Procs : pc[p] \in {"rsm_audit", "uah_update", "uah_audit"}})
AuditRoom == Len(audit_trail) + AuditsInFlight < MaxAudit

AuditRow(operation, entity_type, entity_id, new_hash, performed_by) ==
    [id |-> Len(audit_trail) + 1, operation |-> operation, entity_type |-> entity_type,
     entity_id |-> entity_id, previous_hash |-> NULL, new_hash |-> new_hash,
     performed_by |-> performed_by]

-----------------------------------------------------------------------------
(* DeterministicLedger.record_sprint_manifest *)

PairStored(table, sprint_id, manifest_hash) ==
    \E i \in DOMAIN table :
        table[i].sprint_id = sprint_id /\ table[i].manifest_hash = manifest_hash

SprintRow(table, sprint_id, manifest_hash, signature, created_by) ==
    [id |-> Len(table) + 1, sprint_id |-> sprint_id, manifest_hash |-> manifest_hash,
     digital_signature |-> signature, created_by |-> created_by, status |-> "created"]

\* A faulty variant: the table is UNIQUE on sprint_id alone.
insert_or_ignore_by_sprint(table, sprint_id, manifest_hash, signature, created_by) ==
    IF \E i \in DOMAIN table : table[i].sprint_id = sprint_id
    THEN table
    ELSE Append(table, SprintRow(table, sprint_id, manifest_hash, signature, created_by))

\* A faulty variant: INSERT OR REPLACE, the row of the sprint is overwritten.
insert_or_replace(table, sprint_id, manifest_hash, signature, created_by) ==
    IF \E i \in DOMAIN table : table[i].sprint_id = sprint_id
    THEN [i \in DOMAIN table |->
            IF table[i].sprint_id = sprint_id
            THEN [table[i] EXCEPT !.manifest_hash = manifest_hash]
            ELSE table[i]]
    ELSE Append(table, SprintRow(table, sprint_id, manifest_hash, signature, created_by))

\* INSERT OR IGNORE INTO sprint_ledger, under UNIQUE(sprint_id, manifest_hash):
\* the table afterwards (unchanged when the statement's rowcount is 0)
insert_or_ignore(table, sprint_id, manifest_hash, signature, created_by) ==
    IF PairStored(table, sprint_id, manifest_hash)
    THEN table
    ELSE Append(table, SprintRow(table, sprint_id, manifest_hash, signature, created_by))

\* record_sprint_manifest up to its first statement: the INSERT OR IGNORE,
\* and the raise when nothing was inserted
RsmInsert(p, sprint_id, manifest_hash, signature, created_by) ==
    /\ pc[p] = "idle"
    /\ AuditRoom
    /\ LET after == insert_or_ignore(sprint_ledger, sprint_id, manifest_hash,
                                     signature, created_by)
       IN  IF after = sprint_ledger
           THEN /\ out' =
                       [op |-> "record_sprint_manifest", kind |-> "raised",
                        error |-> "Duplicate sprint_id + manifest_hash",
                        sprint_id |-> sprint_id, manifest_hash |-> manifest_hash,
                        ledger_id |-> 0]
                /\ UNCHANGED <<sprint_ledger, pc, loc>>
           ELSE /\ sprint_ledger' = after
                /\ pc' = [pc EXCEPT ![p] = "rsm_audit"]
                /\ loc' = [loc EXCEPT ![p] =
                       [op |-> "record_sprint_manifest", sprint_id |-> sprint_id,
                        manifest_hash |-> manifest_hash, created_by |-> created_by,
                        ledger_id |-> Len(after)]]
                /\ UNCHANGED out
    /\ UNCHANGED <<artifact_ledger, audit_trail, files>>

\* record_sprint_manifest, its second statement: the audit row, and the return
RsmAudit(p) ==
    /\ pc[p] = "rsm_audit"
    /\ audit_trail' = Append(audit_trail,
           AuditRow("CREATE", "sprint_manifest", loc[p].sprint_id,
                    loc[p].manifest_hash, loc[p].created_by))
    /\ out' =
           [op |-> "record_sprint_manifest", kind |-> "returned", error |-> "",
            sprint_id |-> loc[p].sprint_id, manifest_hash |-> loc[p].manifest_hash,
            ledger_id |-> loc[p].ledger_id]
    /\ pc' = [pc EXCEPT ![p] = "idle"]
    /\ loc' = [loc EXCEPT ![p] = NoLoc]
    /\ UNCHANGED <<sprint_ledger, artifact_ledger, files>>

-----------------------------------------------------------------------------
(* DeterministicLedger.validate_sprint_artifacts *)

RowsOf(sprint_id) == {r \in artifact_ledger : r.sprint_id = sprint_id}

\* A faulty variant: a row without an actual hash counts as a mismatch.
ClassifyPendingAsMismatch(row) ==
    IF row.actual_hash = row.expected_hash THEN "validated" ELSE "mismatch"

\* the classification of one row in the loop of validate_sprint_artifacts
Classify(row) ==
    IF row.actual_hash = NULL THEN "pending"
    ELSE IF row.actual_hash = row.expected_hash THEN "validated"
    ELSE "mismatch"

\* the results dict built from the fetched rows
SprintResults(sprint_id, rows) ==
    [sprint_id |-> sprint_id,
     total_artifacts |-> Cardinality(rows),
     validated_artifacts |-> Cardinality({r \in rows : Classify(r) = "validated"}),
     mismatched_artifacts |-> Cardinality({r \in rows : Classify(r) = "mismatch"}),
     pending_artifacts |-> Cardinality({r \in rows : Classify(r) = "pending"}),
     details |-> {[artifact_id |-> r.artifact_id, status |-> Classify(r)] : r \in rows}]

\* A faulty variant: the status is "validated" only when every row validated.
SprintStatusAllValidated(results) ==
    IF results.validated_artifacts = results.total_artifacts
    THEN "validated" ELSE "hash_mismatch"

\* the status validate_sprint_artifacts writes for the results it computed
SprintStatus(results) ==
    IF results.mismatched_artifacts = 0 THEN "validated" ELSE "hash_mismatch"

\* A faulty variant: the UPDATE has no WHERE clause.
SetSprintStatusAllRows(table, sprint_id, status) ==
    [i \in DOMAIN table |-> [table[i] EXCEPT !.status = status]]

\* UPDATE sprint_ledger SET status = ? WHERE sprint_id = ?
SetSprintStatus(table, sprint_id, status) ==
    [i \in DOMAIN table |->
        IF table[i].sprint_id = sprint_id
        THEN [table[i] EXCEPT !.status = status]
        ELSE table[i]]

\* validate_sprint_artifacts, its first statement: the SELECT, and the loop
VsaSelect(p, sprint_id) ==
    /\ pc[p] = "idle"
    /\ pc' = [pc EXCEPT ![p] = "vsa_update"]
    /\ loc' = [loc EXCEPT ![p] =
           [op |-> "validate_sprint_artifacts", sprint_id |-> sprint_id,
            results |-> SprintResults(sprint_id, RowsOf(sprint_id))]]
    /\ UNCHANGED <<sprint_ledger, artifact_ledger, audit_trail, files, out>>

\* validate_sprint_artifacts, its second statement: the UPDATE, and the return
VsaUpdate(p) ==
    /\ pc[p] = "vsa_update"
    /\ sprint_ledger' = SetSprintStatus(sprint_ledger, loc[p].sprint_id,
                                        SprintStatus(loc[p].results))
    /\ out' =
           [op |-> "validate_sprint_artifacts", kind |-> "returned",
            sprint_id |-> loc[p].sprint_id, results |-> loc[p].results]
    /\ pc' = [pc EXCEPT ![p] = "idle"]
    /\ loc' = [loc EXCEPT ![p] = NoLoc]
    /\ UNCHANGED <<artifact_ledger, audit_trail, files>>

-----------------------------------------------------------------------------
(* DeterministicValidator.validate_artifact and                            *)
(* DeterministicLedger.update_artifact_hash                                *)

\* The actual_content arguments: absent, empty, or a text.
ContentArgs == {NULL, "", "x=2"}

\* the first half of the try block: the actual hash, then the expected hash;
\* error # "" is the message of the exception raised on the way
ComputeHashes(artifact, actual_content) ==
    LET truthy == actual_content # NULL /\ actual_content # ""
        content == IF truthy THEN actual_content ELSE files[artifact.artifact_id]
    IN  IF content = "missing"
        THEN [error |-> "No such file or directory", actual_hash |-> NULL,
              expected_hash |-> NULL]
        ELSE IF artifact.expected_sha256 = NULL
        THEN [error |-> "'Artifact' object has no attribute 'calculate_expected_hash'",
              actual_hash |-> Sha256Hex(content), expected_hash |-> NULL]
        ELSE [error |-> "", actual_hash |-> Sha256Hex(content),
              expected_hash |-> artifact.expected_sha256]

\* the call of update_artifact_hash in the except block
HandlerCall(l, message) ==
    [l EXCEPT !.ctx = "handler", !.actual_hash = NULL,
              !.status = "error: " \o message, !.error = message]

\* validate_artifact up to its call of update_artifact_hash
VaStart(p, artifact, sprint_id, actual_content) ==
    /\ pc[p] = "idle"
    /\ AuditRoom
    /\ LET h == ComputeHashes(artifact, actual_content)
           match == h.actual_hash = h.expected_hash
           call == [op |-> "validate_artifact", ctx |-> "try",
                    sprint_id |-> sprint_id, artifact_id |-> artifact.artifact_id,
                    actual_hash |-> h.actual_hash,
                    status |-> IF match THEN "validated" ELSE "mismatch",
                    expected_hash |-> h.expected_hash, match |-> match, error |-> ""]
       IN  loc' = [loc EXCEPT ![p] =
                      IF h.error = "" THEN call ELSE HandlerCall(call, h.error)]
    /\ pc' = [pc EXCEPT ![p] = "uah_update"]
    /\ UNCHANGED <<sprint_ledger, artifact_ledger, audit_trail, files, out>>

\* UPDATE artifact_ledger SET actual_hash, status, validation_result
\* WHERE sprint_id = ? AND artifact_id = ?
UpdateArtifactRow(table, sprint_id, artifact_id, actual_hash, validation_result) ==
    {IF r.sprint_id = sprint_id /\ r.artifact_id = artifact_id
     THEN [r EXCEPT !.actual_hash = actual_hash, !.status = validation_result,
                    !.validation_result = validation_result]
     ELSE r : r \in table}

\* update_artifact_hash, its first statement; the statement can fail (the
\* database locked or not writable), which raises into validate_artifact:
\* from the try block into the except block, from the except block to the caller
UahUpdate(p) ==
    /\ pc[p] = "uah_update"
    /\ \E fails \in BOOLEAN :
          IF ~fails
          THEN /\ artifact_ledger' = UpdateArtifactRow(artifact_ledger, loc[p].sprint_id,
                      loc[p].artifact_id, loc[p].actual_hash, loc[p].status)
               /\ pc' = [pc EXCEPT ![p] = "uah_audit"]
               /\ UNCHANGED <<loc, out>>
          ELSE IF loc[p].ctx = "try"
          THEN /\ loc' = [loc EXCEPT ![p] = HandlerCall(loc[p], "database is locked")]
               /\ UNCHANGED <<artifact_ledger, pc, out>>
          ELSE /\ out' =
                      [op |-> "validate_artifact", kind |-> "raised",
                       artifact_id |-> loc[p].artifact_id, sprint_id |-> loc[p].sprint_id,
                       expected_sha256 |-> NULL, actual_sha256 |-> NULL,
                       validation_passed |-> FALSE, error |-> "database is locked"]
               /\ pc' = [pc EXCEPT ![p] = "idle"]
               /\ loc' = [loc EXCEPT ![p] = NoLoc]
               /\ UNCHANGED artifact_ledger
    /\ UNCHANGED <<sprint_ledger, audit_trail, files>>

\* update_artifact_hash, its second statement: the audit row; then the
\* return of validate_artifact, from the try block or from the except block
UahAudit(p) ==
    /\ pc[p] = "uah_audit"
    /\ audit_trail' = Append(audit_trail,
           AuditRow("UPDATE", "artifact", loc[p].sprint_id \o ":" \o loc[p].artifact_id,
                    IF loc[p].actual_hash = NULL THEN "error" ELSE loc[p].actual_hash,
                    "system"))
    /\ out' =
           IF loc[p].ctx = "try"
           THEN [op |-> "validate_artifact", kind |-> "returned",
                 artifact_id |-> loc[p].artifact_id, sprint_id |-> loc[p].sprint_id,
                 expected_sha256 |-> loc[p].expected_hash,
                 actual_sha256 |-> loc[p].actual_hash,
                 validation_passed |-> loc[p].match, error |-> ""]
           ELSE [op |-> "validate_artifact", kind |-> "returned",
                 artifact_id |-> loc[p].artifact_id, sprint_id |-> loc[p].sprint_id,
                 expected_sha256 |-> NULL, actual_sha256 |-> NULL,
                 validation_passed |-> FALSE, error |-> loc[p].error]
    /\ pc' = [pc EXCEPT ![p] = "idle"]
    /\ loc' = [loc EXCEPT ![p] = NoLoc]
    /\ UNCHANGED <<sprint_ledger, artifact_ledger, files>>

SignerIdle ==
    /\ env_priv = NULL
    /\ env_pub = NULL
    /\ private_key = "dev"
    /\ public_key = "dev"
    /\ key_source = "generated"
    /\ issued = {}
    /\ signer_out = NoSignerOut

LedgerSpecInit ==
    /\ LedgerInit
    /\ SignerIdle
    /\ WriterIdle
    /\ OthersIdle

LedgerNext ==
    \/ \E p \in Procs, m \in SprintManifests :
          /\ RsmInsert(p, m.sprint_id, calculate_manifest_hash(m), NULL, "tester")
          /\ UNCHANGED <<signerVars, writerVars, otherVars>>
    \/ \E p \in Procs : RsmAudit(p) /\ UNCHANGED <<signerVars, writerVars, otherVars>>
    \/ \E p \in Procs, s \in Sprints : VsaSelect(p, s) /\ UNCHANGED <<signerVars, writerVars, otherVars>>
    \/ \E p \in Procs : VsaUpdate(p) /\ UNCHANGED <<signerVars, writerVars, otherVars>>
    \/ \E p \in Procs, a \in Artifacts, s \in Sprints, c \in ContentArgs :
          /\ <<s, a.artifact_id>> \in ArtifactKeys
          /\ VaStart(p, a, s, c)
          /\ UNCHANGED <<signerVars, writerVars, otherVars>>
    \/ \E p \in Procs : UahUpdate(p) /\ UNCHANGED <<signerVars, writerVars, otherVars>>
    \/ \E p \in Procs : UahAudit(p) /\ UNCHANGED <<signerVars, writerVars, otherVars>>

\* The ledger store with the validator, called by concurrent callers.
SpecLedger == LedgerSpecInit /\ [][LedgerNext]_vars

-----------------------------------------------------------------------------
(* DeterministicValidator.validate_artifact called by one caller at a time,  *)
(* while the producer rewrites the artifact files between the calls.          *)

\* The contents the producer leaves at an artifact's path ("missing": no file).
FileContents == {"x=1", "x=2", "missing"}

\* the producer writes (or removes) the file of an artifact
WriteFile(artifact_id, content) ==
    /\ files[artifact_id] # content
    /\ files' = [files EXCEPT ![artifact_id] = content]
    /\ UNCHANGED <<sprint_ledger, artifact_ledger, audit_trail, pc, loc, out, va_args>>

\* a call of validate_artifact(artifact, manifest, actual_content), with
\* what it was handed and the file as it was when it was called
ValidateArtifact(p, artifact, sprint_id, actual_content) ==
    /\ VaStart(p, artifact, sprint_id, actual_content)
    /\ va_args' = [content |-> actual_content, file |-> files[artifact.artifact_id],
                   expected_sha256 |-> artifact.expected_sha256]

ValidatorSpecInit ==
    /\ LedgerInit
    /\ SignerIdle
    /\ WriterIdle
    /\ va_args = NoArgs
    /\ BucketIdle
    /\ HasherIdle
    /\ ManifestIdle

ValidatorNext ==
    \/ \E a \in Artifacts, s \in Sprints, c \in ContentArgs :
          /\ <<s, a.artifact_id>> \in ArtifactKeys
          /\ ValidateArtifact("t1", a, s, c)
          /\ UNCHANGED <<signerVars, writerVars, hasherVars, manifestVars, bucketVars>>
    \/ UahUpdate("t1") /\ UNCHANGED <<signerVars, writerVars, otherVars>>
    \/ UahAudit("t1") /\ UNCHANGED <<signerVars, writerVars, otherVars>>
    \/ \E s \in Sprints : VsaSelect("t1", s) /\ UNCHANGED <<signerVars, writerVars, otherVars>>
    \/ VsaUpdate("t1") /\ UNCHANGED <<signerVars, writerVars, otherVars>>
    \/ \E a \in ArtifactIds, c \in FileContents :
          pc["t1"] = "idle" /\ WriteFile(a, c) /\ UNCHANGED <<signerVars, writerVars, hasherVars, manifestVars, bucketVars>>

\* The validator with its ledger, one call at a time.
SpecValidator == ValidatorSpecInit /\ [][ValidatorNext]_vars

-----------------------------------------------------------------------------
(* SprintManifest: validate_dependencies and get_execution_order *)

MaxDeps == 2           \* dependency ids listed for one artifact id

\* The artifact ids a manifest can mention.
Nodes == {"A", "B", "C"}

\* lists without a repeated id, of at most n ids
ListsUpTo(n) ==
    {l \in UNION {[1..k -> Nodes] : k \in 0..n} :
        \A i, j \in DOMAIN l : i # j => l[i] # l[j]}

\* self.artifacts: the declared artifacts, by id, in declaration order
ArtifactLists == ListsUpTo(Cardinality(Nodes)) \ {<<>>}

\* self.dependency_graph; an id without a key has the list [] (.get(id, []))
DependencyGraphs == [Nodes -> ListsUpTo(MaxDeps)]

RECURSIVE has_cycle(_, _, _)
RECURSIVE has_cycle_deps(_, _, _, _)

\* has_cycle of validate_dependencies; st holds the two sets it shares
\* between its calls, and result is what the call returns
has_cycle(graph, artifact_id, st) ==
    IF artifact_id \in st.recursion_stack THEN [st EXCEPT !.result = TRUE]
    ELSE IF artifact_id \in st.visited THEN [st EXCEPT !.result = FALSE]
    ELSE LET entered == [visited |-> st.visited \cup {artifact_id},
                         recursion_stack |-> st.recursion_stack \cup {artifact_id},
                         result |-> FALSE]
             after == has_cycle_deps(graph, graph[artifact_id], 1, entered)
         IN  IF after.result
             THEN after
             ELSE [after EXCEPT !.recursion_stack = @ \ {artifact_id}]

\* the loop `for dep in self.dependency_graph.get(artifact_id, [])`
has_cycle_deps(graph, deps, i, st) ==
    IF i > Len(deps) THEN [st EXCEPT !.result = FALSE]
    ELSE LET r == has_cycle(graph, deps[i], st)
         IN  IF r.result THEN r ELSE has_cycle_deps(graph, deps, i + 1, r)

RECURSIVE any_has_cycle(_, _, _, _)

\* the loop `for artifact in self.artifacts` of validate_dependencies: TRUE
\* iff has_cycle returns True for one of them
any_has_cycle(arts, graph, i, st) ==
    IF i > Len(arts) THEN FALSE
    ELSE LET r == has_cycle(graph, arts[i], st)
         IN  IF r.result THEN TRUE ELSE any_has_cycle(arts, graph, i + 1, r)

NoneVisited == [visited |-> {}, recursion_stack |-> {}, result |-> FALSE]

\* A faulty variant: only the first declared artifact is searched.
validate_dependencies_first_artifact(arts, graph) ==
    ~has_cycle(graph, arts[1], NoneVisited).result

\* SprintManifest.validate_dependencies
validate_dependencies(arts, graph) ==
    ~any_has_cycle(arts, graph, 1, NoneVisited)

RECURSIVE visit(_, _, _)
RECURSIVE visit_deps(_, _, _, _)

\* visit of get_execution_order; st holds visited and order
visit(graph, artifact_id, st) ==
    IF artifact_id \in st.visited THEN st
    ELSE LET entered == [st EXCEPT !.visited = @ \cup {artifact_id}]
             after == visit_deps(graph, graph[artifact_id], 1, entered)
         IN  [after EXCEPT !.order = Append(@, artifact_id)]

visit_deps(graph, deps, i, st) ==
    IF i > Len(deps) THEN st
    ELSE visit_deps(graph, deps, i + 1, visit(graph, deps[i], st))

RECURSIVE visit_all(_, _, _, _)

\* the loop `for artifact in self.artifacts` of get_execution_order
visit_all(arts, graph, i, st) ==
    IF i > Len(arts) THEN st
    ELSE visit_all(arts, graph, i + 1, visit(graph, arts[i], st))

\* list(reversed(order))
Reversed(order) == [i \in DOMAIN order |-> order[Len(order) + 1 - i]]

\* A faulty variant: the dependencies are not validated first.
get_execution_order_unchecked(arts, graph) ==
    [raised |-> FALSE, error |-> "",
     order |-> Reversed(visit_all(arts, graph, 1, [visited |-> {}, order |-> <<>>]).order)]

\* A faulty variant: ids that are not declared artifacts are left out.
get_execution_order_declared_only(arts, graph) ==
    IF ~validate_dependencies(arts, graph)
    THEN [raised |-> TRUE, error |-> "Cyclic dependencies detected", order |-> <<>>]
    ELSE [raised |-> FALSE, error |-> "",
          order |-> SelectSeq(Reversed(visit_all(arts, graph, 1,
                                                 [visited |-> {}, order |-> <<>>]).order),
                              LAMBDA id : \E i \in DOMAIN arts : arts[i] = id)]

\* SprintManifest.get_execution_order: the list returned, or the ValueError
get_execution_order(arts, graph) ==
    IF ~validate_dependencies(arts, graph)
    THEN [raised |-> TRUE, error |-> "Cyclic dependencies detected", order |-> <<>>]
    ELSE [raised |-> FALSE, error |-> "",
          order |-> Reversed(visit_all(arts, graph, 1,
                                       [visited |-> {}, order |-> <<>>]).order)]

NoGraphOut == [op |-> "none", result |-> FALSE, raised |-> FALSE, error |-> "", order |-> <<>>]

\* a call of manifest.validate_dependencies()
ValidateDependencies ==
    /\ graph_out' = [op |-> "validate_dependencies",
                     result |-> validate_dependencies(artifacts, dependency_graph),
                     raised |-> FALSE, error |-> "", order |-> <<>>]
    /\ UNCHANGED <<artifacts, dependency_graph>>

\* a call of manifest.get_execution_order()
GetExecutionOrder ==
    /\ LET r == get_execution_order(artifacts, dependency_graph)
       IN  graph_out' = [op |-> "get_execution_order", result |-> ~r.raised,
                         raised |-> r.raised, error |-> r.error, order |-> r.order]
    /\ UNCHANGED <<artifacts, dependency_graph>>

\* A manifest is frozen: its artifacts and graph are those it was built with.
ManifestSpecInit ==
    /\ artifacts \in ArtifactLists
    /\ dependency_graph \in DependencyGraphs
    /\ graph_out = NoGraphOut
    /\ SignerIdle
    /\ WriterIdle
    /\ LedgerIdle
    /\ va_args = NoArgs
    /\ BucketIdle
    /\ HasherIdle

ManifestNext ==
    \/ ValidateDependencies
         /\ UNCHANGED <<signerVars, writerVars, ledgerVars, va_args, hasherVars, bucketVars>>
    \/ GetExecutionOrder
         /\ UNCHANGED <<signerVars, writerVars, ledgerVars, va_args, hasherVars, bucketVars>>

\* The graph algorithms of a manifest, over every small manifest.
SpecManifest == ManifestSpecInit /\ [][ManifestNext]_vars

-----------------------------------------------------------------------------
(* DeterministicValidator.compute_manifest_hash and                          *)
(* create_sprint_manifest_with_hash as functions of the manifest dict         *)

\* The nested dicts a manifest can hold under "config".
NestedDicts ==
    { << <<"mode", PyStr("auto")>> >>,
      << <<"mode", PyStr("auto")>>, <<"version", PyStr("m0")>> >>,
      << <<"expected_sha256", PyStr("m0")>>, <<"mode", PyStr("auto")>> >> }

\* the part of a manifest that is hashed: sprint_id, goal, and maybe config
ContentParts ==
    { << <<"sprint_id", PyStr("s1")>>, <<"goal", PyStr("g1")>> >> }
    \cup { << <<"sprint_id", PyStr("s1")>>, <<"goal", PyStr("g1")>>,
              <<"config", PyDict(n)>> >> : n \in NestedDicts }

\* the key names the operations add, change and remove
MetaNames == {"expected_sha256", "version", "hash_algorithm"}

\* the values the meta keys are given
MetaValues == {PyStr("m0"), PyStr("m1")}

RECURSIVE WithKeys(_, _)

\* d with the keys of ks, each set to "m0"
WithKeys(d, ks) ==
    IF ks = {} THEN d
    ELSE LET k == CHOOSE x \in ks : TRUE
         IN  WithKeys(DictSet(d, k, PyStr("m0")), ks \ {k})

\* The manifests M the functions are applied to.
HashInputs == {WithKeys(c, ks) : c \in ContentParts, ks \in SUBSET MetaNames}

\* d with its keys in another insertion order
Permuted(d, perm) == [i \in DOMAIN d |-> d[perm[i]]]

\* d without the key k
DictDel(d, k) == SelectSeq(d, LAMBDA kv : kv[1] # k)

\* the dict under "config", or {} when there is none
ConfigOf(d) == Get(d, "config", PyDict(<<>>)).v

\* M with its top-level keys permuted, and the keys of "config" as well
PermuteKeys ==
    /\ hash_op = "none"
    /\ \E perm \in Permutations(DOMAIN prev_manifest), rev \in BOOLEAN :
          LET top == Permuted(prev_manifest, perm)
              cfg == ConfigOf(prev_manifest)
          IN  hashed_manifest' =
                  IF rev /\ HasKey(top, "config")
                  THEN DictSet(top, "config", PyDict(Reversed(cfg)))
                  ELSE top
    /\ hash_op' = "permute"
    /\ UNCHANGED prev_manifest

\* M with a meta key added or changed at the top level
SetMetaKey ==
    /\ hash_op = "none"
    /\ \E k \in MetaNames, v \in MetaValues :
          hashed_manifest' = DictSet(prev_manifest, k, v)
    /\ hash_op' = "set_meta"
    /\ UNCHANGED prev_manifest

\* M with a meta key removed at the top level
RemoveMetaKey ==
    /\ hash_op = "none"
    /\ \E k \in MetaNames :
          /\ HasKey(prev_manifest, k)
          /\ hashed_manifest' = DictDel(prev_manifest, k)
    /\ hash_op' = "del_meta"
    /\ UNCHANGED prev_manifest

\* M with a key of the meta names added, changed or removed inside "config"
SetNestedKey ==
    /\ hash_op = "none"
    /\ HasKey(prev_manifest, "config")
    /\ \E k \in MetaNames :
          \/ \E v \in MetaValues :
                hashed_manifest' = DictSet(prev_manifest, "config",
                                           PyDict(DictSet(ConfigOf(prev_manifest), k, v)))
          \/ hashed_manifest' = DictSet(prev_manifest, "config",
                                        PyDict(DictDel(ConfigOf(prev_manifest), k)))
    /\ hash_op' = "set_nested"
    /\ UNCHANGED prev_manifest

\* the values a hashed field is changed to
FieldValues == {PyStr("s1"), PyStr("s2"), PyStr("g1"), PyStr("g1,"), PyStr("auto")}

\* M with one hashed field added, changed or removed, at the top level or
\* inside "config"
PerturbField ==
    /\ hash_op = "none"
    /\ \E k \in {"sprint_id", "goal", "mode"} :
          \/ \E v \in FieldValues : hashed_manifest' = DictSet(prev_manifest, k, v)
          \/ hashed_manifest' = DictDel(prev_manifest, k)
          \/ /\ HasKey(prev_manifest, "config")
             /\ \E v \in FieldValues :
                   hashed_manifest' = DictSet(prev_manifest, "config",
                                              PyDict(DictSet(ConfigOf(prev_manifest), k, v)))
          \/ /\ HasKey(prev_manifest, "config")
             /\ hashed_manifest' = DictSet(prev_manifest, "config",
                                           PyDict(DictDel(ConfigOf(prev_manifest), k)))
          \/ /\ HasKey(prev_manifest, "config")
             /\ hashed_manifest' = DictDel(prev_manifest, "config")
    /\ hashed_manifest' # prev_manifest
    /\ hash_op' = "perturb"
    /\ UNCHANGED prev_manifest

\* create_sprint_manifest_with_hash(M)
CreateSprintManifestWithHash ==
    /\ hash_op = "none"
    /\ hashed_manifest' = create_sprint_manifest_with_hash(prev_manifest)
    /\ hash_op' = "create"
    /\ UNCHANGED prev_manifest

HasherSpecInit ==
    /\ prev_manifest \in HashInputs
    /\ hashed_manifest = prev_manifest
    /\ hash_op = "none"
    /\ SignerIdle
    /\ WriterIdle
    /\ LedgerIdle
    /\ va_args = NoArgs
    /\ BucketIdle
    /\ ManifestIdle

HasherNext ==
    \/ PermuteKeys /\ UNCHANGED <<signerVars, writerVars, ledgerVars, va_args, manifestVars, bucketVars>>
    \/ SetMetaKey /\ UNCHANGED <<signerVars, writerVars, ledgerVars, va_args, manifestVars, bucketVars>>
    \/ RemoveMetaKey /\ UNCHANGED <<signerVars, writerVars, ledgerVars, va_args, manifestVars, bucketVars>>
    \/ SetNestedKey /\ UNCHANGED <<signerVars, writerVars, ledgerVars, va_args, manifestVars, bucketVars>>
    \/ PerturbField /\ UNCHANGED <<signerVars, writerVars, ledgerVars, va_args, manifestVars, bucketVars>>
    \/ CreateSprintManifestWithHash
         /\ UNCHANGED <<signerVars, writerVars, ledgerVars, va_args, manifestVars, bucketVars>>

\* The manifest hash over every small manifest M (prev_manifest) and every
\* manifest derived from it by one operation (hashed_manifest): a behaviour
\* picks M and applies one operation to it.
SpecHasher == HasherSpecInit /\ [][HasherNext]_vars

-----------------------------------------------------------------------------
(* TokenBucket: allow() called by two threads while the clock moves.  Time   *)
(* is counted in ticks and tokens in units of 1/TokenUnit token, so that    *)
(* rate * elapsed is an integer number of units.                            *)

MaxCapacity == 2       \* capacity: 1..MaxCapacity tokens
MaxRate     == 1       \* rate: 0..MaxRate units per tick
MaxClock    == 2       \* values of time.time(): 0..MaxClock
MaxCalls    == 3       \* allow() calls made in one behaviour

TokenUnit == 2         \* units per token: self.tokens is a float

Min(a, b) == IF a <= b THEN a ELSE b

\* TokenBucket.__init__(rate, capacity) at time now
BucketInit ==
    /\ rate \in 0..MaxRate
    /\ capacity \in 1..MaxCapacity
    /\ tokens = capacity * TokenUnit
    /\ lock = NULL
    /\ wall_time \in 0..MaxClock
    /\ last = wall_time
    /\ clock_history = "still"
    /\ allow_pc = [p \in Procs |-> "idle"]
    /\ allow_out = NoAllowOut
    /\ grants = 0
    /\ denials = 0

\* self.tokens after the refill for the time since self.last
Refilled(now) == Min(capacity * TokenUnit, tokens + (now - last) * rate)

\* allow(), "with self.lock:" -- the thread acquires the lock
AllowAcquire(p) ==
    /\ allow_pc[p] = "idle"
    /\ lock = NULL
    /\ grants + denials + Cardinality({q \in Procs : allow_pc[q] = "locked"}) < MaxCalls
    /\ lock' = p
    /\ allow_pc' = [allow_pc EXCEPT ![p] = "locked"]
    /\ UNCHANGED <<rate, capacity, tokens, last, wall_time, clock_history,
                   allow_out, grants, denials>>

\* allow(), the body of the with block and the release of the lock
AllowBody(p) ==
    /\ allow_pc[p] = "locked"
    /\ lock = p
    /\ LET now == wall_time
           available == Refilled(now)
           result == available >= TokenUnit
       IN  /\ tokens' = IF result THEN available - TokenUnit ELSE available
           /\ last' = now
           /\ allow_out' = [thread |-> p, result |-> result, available |-> available,
                            before |-> tokens]
           /\ grants' = IF result THEN grants + 1 ELSE grants
           /\ denials' = IF result THEN denials ELSE denials + 1
    /\ lock' = NULL
    /\ allow_pc' = [allow_pc EXCEPT ![p] = "idle"]
    /\ UNCHANGED <<rate, capacity, wall_time, clock_history>>

\* time.time() is the wall clock: it advances, and it is set back when the
\* system clock is adjusted
SetTime(t) ==
    /\ t # wall_time
    /\ wall_time' = t
    /\ clock_history' = IF t < wall_time \/ clock_history = "set_back"
                        THEN "set_back" ELSE "forward"
    /\ UNCHANGED <<rate, capacity, tokens, last, lock, allow_pc, allow_out, grants, denials>>

BucketSpecInit ==
    /\ BucketInit
    /\ SignerIdle
    /\ WriterIdle
    /\ LedgerIdle
    /\ va_args = NoArgs
    /\ HasherIdle
    /\ ManifestIdle

BucketNext ==
    \/ \E p \in Procs : AllowAcquire(p)
         /\ UNCHANGED <<signerVars, writerVars, ledgerVars, va_args, hasherVars, manifestVars>>
    \/ \E p \in Procs : AllowBody(p)
         /\ UNCHANGED <<signerVars, writerVars, ledgerVars, va_args, hasherVars, manifestVars>>
    \/ \E t \in 0..MaxClock : SetTime(t)
         /\ UNCHANGED <<signerVars, writerVars, ledgerVars, va_args, hasherVars, manifestVars>>

SpecBucket == BucketSpecInit /\ [][BucketNext]_vars

-----------------------------------------------------------------------------
(* Properties *)

\* C1: no two stored ledger entries share the same (sprint id, manifest
\* hash) pair, whatever write_manifest calls were made.
C1_NoTwoEntriesSharePair ==
    \A i, j \in DOMAIN ledger_entries :
        i # j => PairOf(ledger_entries[i]) # PairOf(ledger_entries[j])

\* The same for the table sprint_ledger of DeterministicLedger, whose
\* UNIQUE(sprint_id, manifest_hash) constraint keeps it.
SprintLedgerUnique ==
    \A i, j \in DOMAIN sprint_ledger :
        i # j => PairOf(sprint_ledger[i]) # PairOf(sprint_ledger[j])

\* C2: a write_manifest call for a pair that already has a stored entry is
\* rejected with DuplicateEntry and stores nothing: the pair keeps exactly
\* one entry.
C2_DuplicateWriteRejected ==
    (writer_out.op = "write" /\ writer_out.existed) =>
        /\ writer_out.signal = "DuplicateEntry"
        /\ Cardinality({i \in DOMAIN ledger_entries :
                           PairOf(ledger_entries[i]) = writer_out.pair}) = 1

\* C3 as stated: every step of every ledger operation leaves every stored
\* entry in place with every stored field unchanged.
C3_EntryNeverMutated ==
    [][\A i \in DOMAIN sprint_ledger :
          i \in DOMAIN sprint_ledger' /\ sprint_ledger'[i] = sprint_ledger[i]]_vars

WithoutStatus(row) == [row EXCEPT !.status = ""]

\* C3 as amended: every step leaves every stored entry in place with its id,
\* sprint id, manifest hash, signature and creator unchanged; only the status
\* field changes, and only by the UPDATE of validate_sprint_artifacts, to
\* "validated" or "hash_mismatch".
C3_EntryImmutableExceptStatus ==
    [][\A i \in DOMAIN sprint_ledger :
          /\ i \in DOMAIN sprint_ledger'
          /\ WithoutStatus(sprint_ledger'[i]) = WithoutStatus(sprint_ledger[i])
          /\ sprint_ledger'[i].status # sprint_ledger[i].status =>
                /\ \E p \in Procs : pc[p] = "vsa_update" /\ pc'[p] = "idle"
                                    /\ loc[p].sprint_id = sprint_ledger[i].sprint_id
                /\ sprint_ledger'[i].status \in {"validated", "hash_mismatch"}]_vars

\* C3 witness: an entry was written, validate_sprint_artifacts ran on its
\* sprint and changed its status, and an artifact update followed.
C3_Witness ==
    /\ \E i \in DOMAIN sprint_ledger : sprint_ledger[i].status = "validated"
    /\ out.op = "validate_artifact"

\* C4: a manifest whose hash differs from every stored one of its sprint is
\* never rejected (a raise means the very pair is stored); an accepted write
\* appends one entry under a new id, which the returned ledger id names, and
\* leaves every entry stored before as it was.
C4_ChangedManifestNewEntry ==
    /\ [](/\ \A i \in DOMAIN sprint_ledger : sprint_ledger[i].id = i
          /\ (out.op = "record_sprint_manifest" /\ out.kind = "raised") =>
                PairStored(sprint_ledger, out.sprint_id, out.manifest_hash)
          /\ (out.op = "record_sprint_manifest" /\ out.kind = "returned") =>
                /\ out.ledger_id \in DOMAIN sprint_ledger
                /\ PairOf(sprint_ledger[out.ledger_id]) = <<out.sprint_id, out.manifest_hash>>)
    /\ [][Len(sprint_ledger') # Len(sprint_ledger) =>
             /\ Len(sprint_ledger') = Len(sprint_ledger) + 1
             /\ \A i \in DOMAIN sprint_ledger : sprint_ledger'[i] = sprint_ledger[i]
             /\ \A i \in DOMAIN sprint_ledger :
                   sprint_ledger'[Len(sprint_ledger')].id # sprint_ledger[i].id]_vars

\* C4 witness: two entries of one sprint with different hashes are stored,
\* and the write of the second has returned its id.
C4_Witness ==
    /\ out.op = "record_sprint_manifest" /\ out.kind = "returned" /\ out.ledger_id = 2
    /\ sprint_ledger[1].sprint_id = sprint_ledger[2].sprint_id
    /\ sprint_ledger[1].manifest_hash # sprint_ledger[2].manifest_hash

\* C5: the UPDATE of validate_sprint_artifacts leaves every entry of the
\* sprint with status "validated" if the mismatched count it returns is
\* zero and with "hash_mismatch" otherwise.
C5_StatusFollowsMismatchCount ==
    [][\A p \in Procs :
          (pc[p] = "vsa_update" /\ pc'[p] = "idle") =>
              \A i \in DOMAIN sprint_ledger' :
                  sprint_ledger'[i].sprint_id = out'.sprint_id =>
                      /\ sprint_ledger'[i].status \in {"validated", "hash_mismatch"}
                      /\ sprint_ledger'[i].status = "validated"
                            <=> out'.results.mismatched_artifacts = 0]_vars

\* C5 witness: validate_sprint_artifacts returned a non-zero mismatched
\* count and the entry of its sprint is "hash_mismatch".
C5_Witness ==
    /\ out.op = "validate_sprint_artifacts"
    /\ out.results.mismatched_artifacts > 0
    /\ \E i \in DOMAIN sprint_ledger :
          /\ sprint_ledger[i].sprint_id = out.sprint_id
          /\ sprint_ledger[i].status = "hash_mismatch"

\* C6 as stated: the mismatched count computed from the rows read is zero
\* iff every row's actual hash equals its expected hash.
C6_ZeroMismatchIffAllEqual ==
    [][\A p \in Procs :
          (pc[p] = "idle" /\ pc'[p] = "vsa_update") =>
              (loc'[p].results.mismatched_artifacts = 0
                 <=> \A r \in RowsOf(loc'[p].sprint_id) :
                        r.actual_hash = r.expected_hash)]_vars

\* C6 as amended: the mismatched count computed from the rows read is zero
\* iff every row that has an actual hash has it equal to its expected hash
\* (rows without an actual hash, pending or errored, are not mismatches), and
\* the status written is "validated" exactly when that count is zero.
C6_ZeroMismatchIffNoUnequalHash ==
    [][\A p \in Procs :
          /\ (pc[p] = "idle" /\ pc'[p] = "vsa_update") =>
                (loc'[p].results.mismatched_artifacts = 0
                   <=> \A r \in RowsOf(loc'[p].sprint_id) :
                          r.actual_hash # NULL => r.actual_hash = r.expected_hash)
          /\ (pc[p] = "vsa_update" /\ pc'[p] = "idle") =>
                \A i \in DOMAIN sprint_ledger' :
                    sprint_ledger'[i].sprint_id = loc[p].sprint_id =>
                        (sprint_ledger'[i].status = "validated"
                           <=> loc[p].results.mismatched_artifacts = 0)]_vars

\* C6 witness: a sprint with an errored artifact (no actual hash) was
\* reported with no mismatch and its entry is "validated".
C6_Witness ==
    /\ out.op = "validate_sprint_artifacts"
    /\ out.results.mismatched_artifacts = 0
    /\ out.results.pending_artifacts > 0
    /\ \E r \in RowsOf(out.sprint_id) : r.status \notin {"pending", "validated", "mismatch"}
    /\ \E i \in DOMAIN sprint_ledger :
          /\ sprint_ledger[i].sprint_id = out.sprint_id
          /\ sprint_ledger[i].status = "validated"

\* the signature write_manifest_to_ledger makes for the stored fields of a row
Intact(row) ==
    row.signature = sign_data(SignedPayload(row.timestamp, row.sprint_id,
                                            row.manifest_hash, row.manifest_data))

\* C7: verify_entry(id), by the signer that wrote the entry, returns valid
\* true iff the stored signed fields and signature are those written, and a
\* not-found result for an id without entry.
C7_VerifyEntryIffIntact ==
    writer_out.op = "verify" =>
        IF writer_out.ledger_id \in DOMAIN ledger_entries
        THEN writer_out.valid <=> Intact(ledger_entries[writer_out.ledger_id])
        ELSE ~writer_out.valid /\ writer_out.signal = "Entry not found"

\* C8: verify(d, sign(d)) is true for every payload d and every way the
\* signer obtained its keys.
C8_VerifyAcceptsOwnSignature ==
    (/\ signer_out.op = "verify"
     /\ [data |-> signer_out.data, sig |-> signer_out.sig] \in issued)
        => signer_out.result

\* C9: verifying d' against the signature made for a different payload d is
\* false, and a signature verify accepts for a payload is one sign returned
\* for exactly that payload.
C9_VerifyRejectsOtherPayload ==
    signer_out.op = "verify" =>
        /\ (\E i \in issued : i.sig = signer_out.sig /\ i.data # signer_out.data)
              => ~signer_out.result
        /\ signer_out.result =>
              [data |-> signer_out.data, sig |-> signer_out.sig] \in issued

\* C9 witness: a signer with a matching keypair was handed the signature it
\* made for another payload, and rejected it.
C9_Witness ==
    /\ private_key = public_key
    /\ signer_out.op = "verify"
    /\ ~signer_out.result
    /\ \E i \in issued : i.sig = signer_out.sig /\ i.data # signer_out.data

\* C10: validate_artifact never raises: every call ends by returning a
\* result, which on a failure has validation_passed false and an error text.
C10_ValidateArtifactNeverRaises ==
    out.op = "validate_artifact" =>
        /\ out.kind = "returned"
        /\ out.error # "" => ~out.validation_passed

-----------------------------------------------------------------------------
(* Properties of validate_artifact, update_artifact_hash and the audit trail *)

\* the content a validate_artifact call was handed: the supplied in-memory
\* content if one was given, else the file at the artifact's path
ActualContent(args) == IF args.content # NULL THEN args.content ELSE args.file

\* the stored artifact_ledger rows of (sprint_id, artifact_id)
StoredRows(sprint_id, artifact_id) ==
    {r \in artifact_ledger : r.sprint_id = sprint_id /\ r.artifact_id = artifact_id}

\* the last call to finish was a validate_artifact call that returned
VaReturned ==
    pc["t1"] = "idle" /\ out.op = "validate_artifact" /\ out.kind = "returned"

\* C11: for an artifact with an assigned expected hash, a validate_artifact
\* call that returns a result without error has validation_passed true iff
\* the hash of the actual content equals the expected hash, returns that
\* hash as actual_sha256, and what it recorded through the ledger is
\* "validated" exactly when validation_passed is true and "mismatch"
\* otherwise, together with the actual hash it returns.
C11_PassedIffContentHashMatches ==
    (VaReturned /\ out.error = "" /\ va_args.expected_sha256 # NULL) =>
        /\ out.validation_passed
              <=> Sha256Hex(ActualContent(va_args)) = va_args.expected_sha256
        /\ out.actual_sha256 = Sha256Hex(ActualContent(va_args))
        /\ audit_trail[Len(audit_trail)].new_hash = out.actual_sha256
        /\ \A r \in StoredRows(out.sprint_id, out.artifact_id) :
              /\ r.actual_hash = out.actual_sha256
              /\ r.status = IF out.validation_passed THEN "validated" ELSE "mismatch"

\* C12: every validate_artifact call ends by returning a result that
\* reflects the content at the time of the call, the stored outcome of the
\* artifact is the one of the latest validation, and every validation
\* attempt appends one audit record of the artifact.
C12_RevalidationReflectsLatest ==
    /\ [](pc["t1"] = "idle" /\ out.op = "validate_artifact" =>
            /\ out.kind = "returned"
            /\ (va_args.expected_sha256 # NULL /\ ActualContent(va_args) # "missing") =>
                  /\ out.actual_sha256 = Sha256Hex(ActualContent(va_args))
                  /\ out.validation_passed
                        <=> Sha256Hex(ActualContent(va_args)) = va_args.expected_sha256
            /\ \E r \in StoredRows(out.sprint_id, out.artifact_id) :
                  /\ r.actual_hash = out.actual_sha256
                  /\ out.error = "" =>
                        r.status = IF out.validation_passed THEN "validated" ELSE "mismatch")
    /\ [][(pc["t1"] \in {"uah_update", "uah_audit"} /\ pc'["t1"] = "idle") =>
             /\ Len(audit_trail') = Len(audit_trail) + 1
             /\ audit_trail'[Len(audit_trail')].entity_id
                   = loc["t1"].sprint_id \o ":" \o loc["t1"].artifact_id]_vars

\* C13: the stored validation status of every artifact is one of pending,
\* validated, mismatch, error; a validation that failed with an error leaves
\* the status exactly "error".
C13_StatusInFourValues ==
    /\ \A r \in artifact_ledger : r.status \in {"pending", "validated", "mismatch", "error"}
    /\ (VaReturned /\ out.error # "") =>
          \A r \in StoredRows(out.sprint_id, out.artifact_id) : r.status = "error"

\* C14: after update_artifact_hash(sprint_id, artifact_id, actual_hash,
\* status) returns, the stored row of (sprint_id, artifact_id) exists with
\* that actual hash and status, also for an artifact never validated before,
\* and a later validate_sprint_artifacts(sprint_id) counts the artifact.
C14_UpdatePersistsOutcome ==
    /\ [][(pc["t1"] = "uah_audit" /\ pc'["t1"] = "idle") =>
             \E r \in artifact_ledger' :
                 /\ r.sprint_id = loc["t1"].sprint_id
                 /\ r.artifact_id = loc["t1"].artifact_id
                 /\ r.actual_hash = loc["t1"].actual_hash
                 /\ r.status = loc["t1"].status]_vars
    /\ [](pc["t1"] = "idle" /\ out.op = "validate_sprint_artifacts" =>
            \A i \in DOMAIN audit_trail :
                audit_trail[i].entity_type = "artifact" =>
                    \A a \in ArtifactIds :
                        audit_trail[i].entity_id = out.sprint_id \o ":" \o a =>
                            \E d \in out.results.details : d.artifact_id = a)

\* the calls in flight whose state change is stored and whose audit row is
\* the next statement
AwaitingAudit(label) == Cardinality({p \in Procs : pc[p] = label})

AuditRowsOf(operation, entity_type) ==
    {i \in DOMAIN audit_trail : /\ audit_trail[i].operation = operation
                                /\ audit_trail[i].entity_type = entity_type}

\* C15: the audit trail is append-only and holds one record per
\* state-changing operation: one per accepted manifest write, one per change
\* of a manifest's status, one per change of an artifact's stored hash or
\* status, none for an operation that changed no stored state; no record is
\* ever modified or removed.
C15_OneAuditRecordPerChange ==
    /\ [](/\ Cardinality(AuditRowsOf("CREATE", "sprint_manifest"))
                + AwaitingAudit("rsm_audit") = Len(sprint_ledger)
          /\ \A i \in DOMAIN sprint_ledger :
                sprint_ledger[i].status # "created" =>
                    \E j \in AuditRowsOf("UPDATE", "sprint_manifest") :
                        audit_trail[j].entity_id = sprint_ledger[i].sprint_id
          /\ \A j \in AuditRowsOf("UPDATE", "artifact") :
                \E r \in artifact_ledger :
                    audit_trail[j].entity_id = r.sprint_id \o ":" \o r.artifact_id)
    /\ [][/\ Len(audit_trail') \in {Len(audit_trail), Len(audit_trail) + 1}
          /\ \A i \in DOMAIN audit_trail : audit_trail'[i] = audit_trail[i]]_vars

\* The part of C15 the code keeps: the audit trail only grows, by one row at
\* a time, and no stored row changes.
AuditTrailAppendOnly ==
    [][/\ Len(audit_trail') \in {Len(audit_trail), Len(audit_trail) + 1}
       /\ \A i \in DOMAIN audit_trail : audit_trail'[i] = audit_trail[i]]_vars

-----------------------------------------------------------------------------
(* Properties of the dependency graph algorithms *)

\* graph has the edge a -> b: b is listed as a dependency of a
Edge(graph, a, b) == \E i \in DOMAIN graph[a] : graph[a][i] = b

RECURSIVE ReachableFrom(_, _)

\* the ids reachable from the ids of `from` along dependency edges
ReachableFrom(graph, from) ==
    LET next == from \cup {b \in Nodes : \E a \in from : Edge(graph, a, b)}
    IN  IF next = from THEN from ELSE ReachableFrom(graph, next)

\* n lies on a cycle of the graph
OnCycle(graph, n) == n \in ReachableFrom(graph, {b \in Nodes : Edge(graph, n, b)})

Declared(arts) == {arts[i] : i \in DOMAIN arts}

\* a cycle can be reached from a declared artifact
CycleReachable(arts, graph) ==
    \E n \in ReachableFrom(graph, Declared(arts)) : OnCycle(graph, n)

\* C16: for an acyclic dependency graph get_execution_order returns an
\* order that holds every declared artifact once and in which every artifact
\* comes after all of its dependencies (so [B, A] for {A:[B], B:[]}).
C16_OrderPutsDependenciesFirst ==
    (/\ graph_out.op = "get_execution_order"
     /\ \A n \in Nodes : ~OnCycle(dependency_graph, n)) =>
        /\ ~graph_out.raised
        /\ \A a \in Declared(artifacts) :
              Cardinality({i \in DOMAIN graph_out.order : graph_out.order[i] = a}) = 1
        /\ \A i, j \in DOMAIN graph_out.order :
              Edge(dependency_graph, graph_out.order[i], graph_out.order[j]) => j < i

\* C17: validate_dependencies returns false iff a cycle (a self-loop or a
\* longer one) is reachable from a declared artifact; it returns true for
\* every acyclic graph.
C17_FalseIffCycleReachable ==
    graph_out.op = "validate_dependencies" =>
        (graph_out.result <=> ~CycleReachable(artifacts, dependency_graph))

\* C17 witness: validate_dependencies returned false for a cycle through
\* two artifacts that is reached from the only declared one.
C17_Witness ==
    /\ graph_out.op = "validate_dependencies"
    /\ ~graph_out.result
    /\ artifacts = <<"A">>
    /\ dependency_graph = [n \in Nodes |-> IF n = "A" THEN <<"B">>
                                           ELSE IF n = "B" THEN <<"C">>
                                           ELSE <<"B">>]

\* validate_dependencies returned true for a graph in which two declared
\* artifacts share a dependency.
SharedDependencyAccepted ==
    /\ graph_out.op = "validate_dependencies"
    /\ graph_out.result
    /\ artifacts = <<"A", "B", "C">>
    /\ dependency_graph = [n \in Nodes |-> IF n = "C" THEN <<>> ELSE <<"C">>]

\* C18 as stated: whenever the dependency graph has a cycle,
\* get_execution_order fails and returns no order.
C18_AnyCycleRaises ==
    (/\ graph_out.op = "get_execution_order"
     /\ \E n \in Nodes : OnCycle(dependency_graph, n)) =>
        graph_out.raised /\ graph_out.order = <<>>

\* C18 as amended: get_execution_order fails with the error "Cyclic
\* dependencies detected", returning no order, exactly when a cycle is
\* reachable from a declared artifact (when validate_dependencies is false);
\* otherwise it returns an order that holds every declared artifact.
C18_ReachableCycleRaises ==
    graph_out.op = "get_execution_order" =>
        IF CycleReachable(artifacts, dependency_graph)
        THEN /\ graph_out.raised
             /\ graph_out.error = "Cyclic dependencies detected"
             /\ graph_out.order = <<>>
        ELSE /\ ~graph_out.raised
             /\ Declared(artifacts) \subseteq {graph_out.order[i] : i \in DOMAIN graph_out.order}

\* C18 witness: the order of a manifest with the cycle A -> B -> A was asked
\* for, and the call failed.
C18_Witness ==
    /\ graph_out.op = "get_execution_order"
    /\ graph_out.raised
    /\ artifacts = <<"A", "B">>
    /\ dependency_graph = [n \in Nodes |-> IF n = "A" THEN <<"B">>
                                           ELSE IF n = "B" THEN <<"A">> ELSE <<>>]

-----------------------------------------------------------------------------
(* Properties of the manifest hash *)

\* C19: the hash of a manifest whose keys were permuted, at the top level
\* and inside a nested dict, equals the hash of the manifest.
C19_HashIgnoresKeyOrder ==
    hash_op = "permute" =>
        compute_manifest_hash(hashed_manifest) = compute_manifest_hash(prev_manifest)

\* C19 witness: a manifest was permuted both at the top level and inside
\* its nested dict.
C19_Witness ==
    /\ hash_op = "permute"
    /\ HasKey(prev_manifest, "config")
    /\ hashed_manifest[1] # prev_manifest[1]
    /\ Len(ConfigOf(prev_manifest)) = 2
    /\ ConfigOf(hashed_manifest) # ConfigOf(prev_manifest)

\* C20: adding, changing or removing a meta key at the top level leaves the
\* hash unchanged; the expected_sha256 that create_sprint_manifest_with_hash
\* embeds is the hash of the manifest it returns; a change of a key of the
\* same name inside a nested value changes the hash.
C20_MetaKeysIgnoredAtTopOnly ==
    /\ hash_op \in {"set_meta", "del_meta"} =>
          compute_manifest_hash(hashed_manifest) = compute_manifest_hash(prev_manifest)
    /\ hash_op = "create" =>
          /\ Get(hashed_manifest, "expected_sha256", PyStr(""))
                = [ty |-> "hash", v |-> compute_manifest_hash(hashed_manifest)]
          /\ compute_manifest_hash(hashed_manifest) = compute_manifest_hash(prev_manifest)
    /\ (hash_op = "set_nested" /\ hashed_manifest # prev_manifest) =>
          compute_manifest_hash(hashed_manifest) # compute_manifest_hash(prev_manifest)

\* C20 witness: a manifest that carried a stale expected_sha256 and another
\* version at the top level, and a version key inside its nested dict, went
\* through create_sprint_manifest_with_hash.
C20_Witness ==
    /\ hash_op = "create"
    /\ Get(prev_manifest, "expected_sha256", PyStr("")) = PyStr("m0")
    /\ Get(prev_manifest, "version", PyStr("")) = PyStr("m0")
    /\ HasKey(ConfigOf(prev_manifest), "version")
    /\ Get(hashed_manifest, "version", PyStr("")) = PyStr("v1")

\* a nested key of a meta name was changed and the hash changed with it
NestedMetaKeyChangesHash ==
    /\ hash_op = "set_nested"
    /\ ConfigOf(hashed_manifest) # ConfigOf(prev_manifest)
    /\ compute_manifest_hash(hashed_manifest) # compute_manifest_hash(prev_manifest)

\* the dict as a mapping: its keys in order, at every level
AsMapping(d) == SortKeys(d)

\* the dict without the top-level keys compute_manifest_hash leaves out
HashedPart(d) == SelectSeq(d, LAMBDA kv : kv[1] \notin MetaNames)

\* C21 as stated: two manifests that differ in any field have different
\* hashes.
C21_AnyDifferenceChangesHash ==
    AsMapping(hashed_manifest) # AsMapping(prev_manifest) =>
        compute_manifest_hash(hashed_manifest) # compute_manifest_hash(prev_manifest)

\* C21 as amended: two manifests that differ in a field other than the
\* top-level expected_sha256, version and hash_algorithm have different
\* hashes, and two that differ in those three keys only have the same hash.
C21_HashedFieldDifferenceChangesHash ==
    /\ AsMapping(HashedPart(hashed_manifest)) # AsMapping(HashedPart(prev_manifest)) =>
          compute_manifest_hash(hashed_manifest) # compute_manifest_hash(prev_manifest)
    /\ AsMapping(HashedPart(hashed_manifest)) = AsMapping(HashedPart(prev_manifest)) =>
          compute_manifest_hash(hashed_manifest) = compute_manifest_hash(prev_manifest)

\* C21 witness: one field inside the nested dict of a manifest was changed,
\* and the hash changed.
C21_Witness ==
    /\ hash_op = "perturb"
    /\ HasKey(hashed_manifest, "config")
    /\ DictDel(hashed_manifest, "config") = DictDel(prev_manifest, "config")
    /\ Keys(ConfigOf(hashed_manifest)) = Keys(ConfigOf(prev_manifest))
    /\ compute_manifest_hash(hashed_manifest) # compute_manifest_hash(prev_manifest)

-----------------------------------------------------------------------------
(* Properties of the signer's keys and of its failures *)

C23_NoPrivateKeyNoWrite ==
    env_priv = NULL =>
        /\ signer_out.op = "sign" => signer_out.raised # ""
        /\ writer_out.op = "write" => writer_out.signal # ""
        /\ ledger_entries = <<>>

\* C24: supplied key material is the material the signer holds, and the
\* signer never holds a generated key (no development-mode flag is ever
\* set: the signer reads none).
C24_NoGeneratedKeyWithoutFlag ==
    /\ env_priv # NULL => private_key = env_priv
    /\ env_pub # NULL => public_key = env_pub
    /\ key_source # "generated"

-----------------------------------------------------------------------------
(* Properties of the token bucket *)

\* the bucket is fresh and no time has elapsed since it was made
NoTimeElapsed == clock_history = "still"

\* C25: the token count stays within [0, capacity]; allow() returns true
\* exactly when at least one token is available after the refill, and then
\* consumes it; with no time elapsing a fresh bucket grants exactly
\* capacity calls and denies the next, whichever threads make the calls.
C25_TokensWithinCapacity ==
    /\ 0 <= tokens
    /\ tokens <= capacity * TokenUnit
    /\ allow_out.thread # NULL =>
          allow_out.result = (allow_out.available >= TokenUnit)
    /\ NoTimeElapsed =>
          /\ grants <= capacity
          /\ denials > 0 => grants = capacity
          /\ tokens = (capacity - grants) * TokenUnit

\* The same with the clock never set back: the token count then stays
\* within [0, capacity].
TokensWithinCapacityWhileClockAdvances ==
    clock_history # "set_back" => C25_TokensWithinCapacity

-----------------------------------------------------------------------------
(* Properties of the ledger's transactions and of its sprints *)

\* C26: validate_sprint_artifacts reads the artifact rows and writes the
\* status as one transaction: while a call is between its read and its
\* status write, the rows of its sprint are still as it read them (no
\* update_artifact_hash of another caller has taken effect on them).
C26_ReadAndStatusWriteAtomic ==
    \A p \in Procs :
        pc[p] = "vsa_update" =>
            loc[p].results =
                SprintResults(loc[p].sprint_id,
                              {r \in artifact_ledger : r.sprint_id = loc[p].sprint_id})

\* the CREATE audit records of sprint manifests
CreateAudits ==
    {i \in DOMAIN audit_trail :
        audit_trail[i].operation = "CREATE" /\ audit_trail[i].entity_type = "sprint_manifest"}

\* C27: in every reachable state, as any reader of the database sees it, a
\* ledger entry of a (sprint id, manifest hash) pair is stored if and only
\* if the CREATE audit record of that pair is stored.
C27_EntryIffCreateAudit ==
    /\ \A i \in DOMAIN sprint_ledger :
          \E k \in CreateAudits :
             /\ audit_trail[k].entity_id = sprint_ledger[i].sprint_id
             /\ audit_trail[k].new_hash = sprint_ledger[i].manifest_hash
    /\ \A k \in CreateAudits :
          \E i \in DOMAIN sprint_ledger :
             /\ audit_trail[k].entity_id = sprint_ledger[i].sprint_id
             /\ audit_trail[k].new_hash = sprint_ledger[i].manifest_hash

\* the step leaves every stored row of the sprints other than s as it was
OtherSprintsUntouched(s) ==
    /\ \A s2 \in Sprints \ {s} :
          {r \in artifact_ledger' : r.sprint_id = s2} =
          {r \in artifact_ledger : r.sprint_id = s2}
    /\ DOMAIN sprint_ledger' = DOMAIN sprint_ledger
    /\ \A i \in DOMAIN sprint_ledger :
          sprint_ledger[i].sprint_id # s => sprint_ledger'[i] = sprint_ledger[i]

\* C28: operations on different sprints are independent: every statement of
\* update_artifact_hash and of validate_sprint_artifacts for a sprint s
\* leaves the entries (status included) and the artifact rows of the other
\* sprints unchanged, and the result validate_sprint_artifacts(s) computes
\* counts and classifies the artifact rows of s and no others.
C28_SprintsIndependent ==
    [][\A p \in Procs :
          /\ (/\ pc[p] \in {"uah_update", "uah_audit", "vsa_update"}
              /\ (pc'[p] # pc[p] \/ loc'[p] # loc[p]))
                => OtherSprintsUntouched(loc[p].sprint_id)
          /\ (pc[p] = "idle" /\ pc'[p] = "vsa_update") =>
                /\ OtherSprintsUntouched(loc'[p].sprint_id)
                /\ loc'[p].results.total_artifacts =
                      Cardinality({r \in artifact_ledger : r.sprint_id = loc'[p].sprint_id})
                /\ {d.artifact_id : d \in loc'[p].results.details} =
                      {r.artifact_id : r \in {x \in artifact_ledger :
                                                 x.sprint_id = loc'[p].sprint_id}}]_vars

\* C28 witness: validate_sprint_artifacts of s1 was the last call to finish,
\* with the entry of s2 stored before it wrote: the s1 entry has the status
\* it wrote and the entry of s2 is still as created.
C28_Witness ==
    /\ out.op = "validate_sprint_artifacts"
    /\ out.sprint_id = "s1"
    /\ \A p \in Procs : pc[p] = "idle"
    /\ \E i, j \in DOMAIN sprint_ledger :
          /\ sprint_ledger[i].sprint_id = "s1"
          /\ sprint_ledger[i].status \in {"validated", "hash_mismatch"}
          /\ sprint_ledger[j].sprint_id = "s2"
          /\ sprint_ledger[j].status = "created"

-----------------------------------------------------------------------------
(* Properties of the expected hash and of the execution order *)

\* C29: a validate_artifact call for an artifact with no assigned expected
\* hash, handed a content to hash, completes with a comparison against the
\* artifact's plan fingerprint: it returns no error and an expected hash.
C29_NoAssignedHashComparesFingerprint ==
    (/\ VaReturned
     /\ va_args.expected_sha256 = NULL
     /\ va_args.content # NULL
     /\ va_args.content # "") =>
        /\ out.error = ""
        /\ out.expected_sha256 # NULL

\* how often id occurs in the list
Occurrences(order, id) == Cardinality({i \in DOMAIN order : order[i] = id})

\* C30 as stated: the list get_execution_order returns is a permutation of
\* the declared artifact ids -- every declared id once, no other id -- also
\* when the dependency graph names ids that are not declared artifacts.
C30_OrderIsPermutationOfDeclared ==
    (graph_out.op = "get_execution_order" /\ ~graph_out.raised) =>
        /\ \A a \in Declared(artifacts) : Occurrences(graph_out.order, a) = 1
        /\ \A i \in DOMAIN graph_out.order : graph_out.order[i] \in Declared(artifacts)

\* C30, amended: the list get_execution_order returns holds exactly the ids
\* reachable from the declared artifacts along dependency edges, each once:
\* every declared id, and every undeclared id that the graph names as a
\* direct or indirect dependency of a declared artifact.
C30_OrderIsPermutationOfReachable ==
    (graph_out.op = "get_execution_order" /\ ~graph_out.raised) =>
        /\ \A a \in ReachableFrom(dependency_graph, Declared(artifacts)) :
              Occurrences(graph_out.order, a) = 1
        /\ \A i \in DOMAIN graph_out.order :
              graph_out.order[i] \in ReachableFrom(dependency_graph, Declared(artifacts))

\* C30 witness: get_execution_order returned a list that holds an id that
\* is not a declared artifact.
C30_Witness ==
    /\ graph_out.op = "get_execution_order"
    /\ ~graph_out.raised
    /\ \E i \in DOMAIN graph_out.order : graph_out.order[i] \notin Declared(artifacts)

=============================================================================
